---- MODULE Spec2Model ----
(***************************************************************************)
(* Velvet Down: the download orchestration engine.                         *)
(*                                                                         *)
(* One control (GUI) context runs the handlers of VelvetDownApp and        *)
(* YTDownloader; FormatFetchThread and DownloadThread objects run on their *)
(* own threads and talk to the control context through queued Qt signals,  *)
(* modelled as one FIFO of posted events.  User input is not part of that  *)
(* FIFO: a click may be handled before signals that are already posted.    *)
(***************************************************************************)
EXTENDS Integers, Sequences, FiniteSets, TLC

\* ---------------------------------------------------------------- bounds
MaxSessions == 2        \* DownloadThread objects created in one run
MaxFetches == 2         \* FormatFetchThread objects created in one run
MaxQueue == 1           \* posted signals not yet delivered
MaxFormats == 3         \* records in the 'formats' list of one extract_info result
MaxWords == 2           \* words in the text of one exception
MaxEntries == 2         \* entries of the temp folder when ydl.download returns

None == 0               \* Python's None for ids
NoUrl == ""             \* Python's None for current_url

Sessions == 1..MaxSessions
Fetches == 1..MaxFetches

\* raw percent values the download capability reports in _percent_str
RawPcts == {20, 40}
\* URL texts typed into url_input: empty, not allow-listed, allow-listed
UrlTexts == {"", "ftp://x", "https://youtu.be/a"}
\* more texts of url_input, for the format fetching subsystem taken alone
FetchUrlTexts ==
    UrlTexts \cup {"https://evil.com/a", "https://youtu.be/", "x https://youtu.be/a",
                   "https://m.youtube.com/a", "http://www.tiktok.com/a"}
\* user-facing messages of ErrorHandler.get_error_message, by kind
ErrMsgs == {"GENERIC"}
\* what shutil.move can do in download_finished
MoveOutcomes == {"ok", "PermissionError", "OSError", "Exception"}

VARIABLES
    \* VelvetDownApp
    selected_format,        \* None or the catalog (fetch id) the format came from
    is_downloading,
    url_input,              \* enabled?
    browse_btn,             \* enabled?
    cancel_btn,             \* visible?
    open_file_btn,          \* visible?
    progress,               \* QProgressBar value
    status_label,           \* text template shown
    format_grid,            \* "empty" | "loading" | "error" | "formats"
    grid_catalog,           \* fetch id whose formats the cards carry
    \* YTDownloader
    current_url,
    last_downloaded_file,   \* None or the session whose file was moved
    temp_download_folder,   \* None or the session's mkdtemp folder
    is_downloading_phase,
    is_merging_phase,
    download_thread,        \* None or the latest DownloadThread
    format_thread,          \* None or the latest FormatFetchThread
    elapsed,                \* time.time() - last_progress_update > 0.1
    \* threads
    dthreads,               \* session -> [pc, cancelled]
    fthreads,               \* fetch id -> [pc, url]
    \* file system
    temp_dirs,              \* temp folders that exist
    temp_files,             \* temp folders holding a finished output file
    \* control context
    queue,                  \* posted signals, oldest first
    gui,                    \* "idle" | "cancel_wait" | "close_wait_fetch" |
                            \* "close_wait_download" | "closed"
    \* observation (not program state)
    early,                  \* of the latest session: "open" until a progress line
                            \* is delivered, "cancelled" if cancel came first
    transitioned,           \* sessions whose Merging/Completed was displayed
    rm_failed,              \* temp folders whose last rmtree raised
    last,                   \* the handler the control context ran last
    \* on_formats_fetched taken alone
    formats,                \* data.get('formats', []) of the signal
    shown,                  \* what format_grid was given: show_formats / show_error
    \* ErrorHandler.get_error_message taken alone
    error_text,             \* str(error), a sequence of characters
    error_type,             \* the kind returned
    error_message,          \* the user-facing message returned
    \* the scan of DownloadThread.run taken alone
    temp_listing,           \* the temp folder: does it exist, and its entries
    worker_result           \* the signal the thread ends on

appVars == <<selected_format, is_downloading, url_input, browse_btn, cancel_btn,
             open_file_btn, progress, status_label, format_grid, grid_catalog>>
dlVars == <<current_url, last_downloaded_file, temp_download_folder,
            is_downloading_phase, is_merging_phase, download_thread,
            format_thread, elapsed>>
envVars == <<dthreads, fthreads, temp_dirs, temp_files, queue, gui>>
obsVars == <<early, transitioned, rm_failed, last>>
pureVars == <<formats, shown, error_text, error_type, error_message,
              temp_listing, worker_result>>
vars == <<appVars, dlVars, envVars, obsVars, pureVars>>

Event(t, w, p, m) == [t |-> t, w |-> w, p |-> p, m |-> m]
Last(op, w, arg) == [op |-> op, w |-> w, arg |-> arg]

\* nothing is shown by the handlers that are taken alone
NotShown == [grid |-> "unset", video |-> <<>>, audio |-> <<>>]

ProgramInit ==
    /\ selected_format = None
    /\ is_downloading = FALSE
    /\ url_input = TRUE
    /\ browse_btn = TRUE
    /\ cancel_btn = FALSE
    /\ open_file_btn = FALSE
    /\ progress = 0
    /\ status_label = "Ready"
    /\ format_grid = "empty"
    /\ grid_catalog = None
    /\ current_url = NoUrl
    /\ last_downloaded_file = None
    /\ temp_download_folder = None
    /\ is_downloading_phase = TRUE
    /\ is_merging_phase = FALSE
    /\ download_thread = None
    /\ format_thread = None
    /\ elapsed = TRUE
    /\ dthreads = [s \in Sessions |-> [pc |-> "unborn", cancelled |-> FALSE]]
    /\ fthreads = [f \in Fetches |-> [pc |-> "unborn", url |-> NoUrl]]
    /\ temp_dirs = {}
    /\ temp_files = {}
    /\ queue = <<>>
    /\ gui = "idle"
    /\ early = "closed"
    /\ transitioned = {}
    /\ rm_failed = {}
    /\ last = Last("none", None, "")

\* the message of get_error_message: the fixed text of a kind, and for GENERIC
\* the characters of the exception text that follow "Error: "
Message(fixed, raw) == [fixed |-> fixed, raw |-> raw]
NoMessage == Message("unset", <<>>)

\* no exception is being classified
ClassifyIdle == error_text = <<>> /\ error_type = "unset" /\ error_message = NoMessage

\* no temp folder is being scanned
NoResult == [signal |-> "unset", arg |-> <<>>]
ScanIdle == temp_listing = [exists |-> FALSE, entries |-> {}] /\ worker_result = NoResult

Init ==
    /\ ProgramInit
    /\ formats = <<>>
    /\ shown = NotShown
    /\ ClassifyIdle
    /\ ScanIdle

\* ------------------------------------------------------------ helpers
Min(a, b) == IF a < b THEN a ELSE b

\* the thread is inside ydl.download, between two calls of the progress hook
Running(s) == dthreads[s].pc = "running"
\* QThread.isRunning()
IsRunning(s) == dthreads[s].pc \in {"running", "hook_finished"}
DownloadThreadIsRunning == download_thread # None /\ IsRunning(download_thread)

Room(n) == Len(queue) + n <= MaxQueue

\* faulty variant: _reset_ui leaves the cancel button visible
reset_ui_KeepsCancel ==
    /\ is_downloading' = FALSE
    /\ url_input' = TRUE
    /\ browse_btn' = TRUE
    /\ cancel_btn' = cancel_btn

\* YTDownloader._reset_ui
reset_ui ==
    /\ is_downloading' = FALSE
    /\ url_input' = TRUE
    /\ browse_btn' = TRUE
    /\ cancel_btn' = FALSE

\* faulty variant: _cleanup_temp removes nothing and reports nothing
cleanup_temp_LeavesFolder(dirs, files, rm_ok) ==
    /\ temp_dirs' = dirs
    /\ temp_files' = files
    /\ rm_failed' = rm_failed

\* YTDownloader._cleanup_temp applied to the folders dirs/files; rm_ok says
\* whether shutil.rmtree returns (TRUE) or raises, which is logged and swallowed
cleanup_temp(dirs, files, rm_ok) ==
    IF temp_download_folder # None /\ temp_download_folder \in dirs
    THEN IF rm_ok
         THEN /\ temp_dirs' = dirs \ {temp_download_folder}
              /\ temp_files' = files \ {temp_download_folder}
              /\ rm_failed' = rm_failed \ {temp_download_folder}
         ELSE /\ temp_dirs' = dirs
              /\ temp_files' = files
              /\ rm_failed' = rm_failed \cup {temp_download_folder}
    ELSE /\ temp_dirs' = dirs
         /\ temp_files' = files
         /\ rm_failed' = rm_failed

\* faulty variant: the scaled percentage is rounded up
ActualProgress_RoundsUp(pct) == Min((pct * 95 + 99) \div 100, 95)

\* faulty variant: the raw percentage is displayed unscaled
ActualProgress_Unscaled(pct) == Min(pct, 100)

\* min(int(pct * 0.95), 95)
ActualProgress(pct) == Min((pct * 95) \div 100, 95)

\* ------------------------------------------------------ format fetching
\* the parts of a URL text as the pattern of is_valid_youtube_url reads it:
\* what precedes the scheme, the scheme, an optional "www.", the host up to the
\* first "/", and what follows that "/"
UrlShape(url) ==
    CASE url = "ftp://x" ->
           [lead |-> "", scheme |-> "ftp", www |-> "", host |-> "x", slash |-> FALSE, path |-> ""]
      [] url = "https://youtu.be/a" ->
           [lead |-> "", scheme |-> "https", www |-> "", host |-> "youtu.be", slash |-> TRUE, path |-> "a"]
      [] url = "https://evil.com/a" ->
           [lead |-> "", scheme |-> "https", www |-> "", host |-> "evil.com", slash |-> TRUE, path |-> "a"]
      [] url = "https://youtu.be/" ->
           [lead |-> "", scheme |-> "https", www |-> "", host |-> "youtu.be", slash |-> TRUE, path |-> ""]
      [] url = "x https://youtu.be/a" ->
           [lead |-> "x ", scheme |-> "https", www |-> "", host |-> "youtu.be", slash |-> TRUE, path |-> "a"]
      [] url = "https://m.youtube.com/a" ->
           [lead |-> "", scheme |-> "https", www |-> "", host |-> "m.youtube.com", slash |-> TRUE, path |-> "a"]
      [] url = "http://www.tiktok.com/a" ->
           [lead |-> "", scheme |-> "http", www |-> "www.", host |-> "tiktok.com", slash |-> TRUE, path |-> "a"]
      [] OTHER ->
           [lead |-> "", scheme |-> "", www |-> "", host |-> "", slash |-> FALSE, path |-> ""]

\* faulty variant: any host passes
is_valid_youtube_url_AnyHost(url) ==
    UrlShape(url).lead = "" /\ UrlShape(url).scheme \in {"http", "https"}

\* YTDownloader.is_valid_youtube_url:
\* ^https?://(www\.)?(youtube\.com|youtu\.be|tiktok\.com|instagram\.com)/.+$
is_valid_youtube_url(url) ==
    LET u == UrlShape(url) IN
    /\ u.lead = ""
    /\ u.scheme \in {"http", "https"}
    /\ u.host \in {"youtube.com", "youtu.be", "tiktok.com", "instagram.com"}
    /\ u.slash
    /\ u.path # ""

NextFetch == Cardinality({f \in Fetches : fthreads[f].pc # "unborn"}) + 1

\* YTDownloader.fetch_formats
fetch_formats(url) ==
    /\ NextFetch \in Fetches
    /\ current_url' = url
    /\ format_grid' = "loading"
    /\ status_label' = "FetchingFormats"
    /\ format_thread' = NextFetch
    /\ fthreads' = [fthreads EXCEPT ![NextFetch] = [pc |-> "running", url |-> url]]

\* faulty variant: on_url_changed does not ask is_connected()
on_url_changed_NoProbe(text, connected) ==
    /\ gui = "idle"
    /\ url_input
    /\ IF text # "" /\ is_valid_youtube_url(text)
       THEN fetch_formats(text)
       ELSE /\ format_grid' = "error"
            /\ UNCHANGED <<current_url, status_label, format_thread, fthreads>>
    /\ UNCHANGED <<selected_format, is_downloading, url_input, browse_btn, cancel_btn,
                   open_file_btn, progress, grid_catalog, last_downloaded_file,
                   temp_download_folder, is_downloading_phase, is_merging_phase,
                   download_thread, elapsed, dthreads, temp_dirs,
                   temp_files, queue, gui, early, transitioned, rm_failed>>

\* VelvetDownApp.on_url_changed; connected is what is_connected() returns
on_url_changed(text, connected) ==
    /\ gui = "idle"
    /\ url_input
    /\ IF text # "" /\ connected /\ is_valid_youtube_url(text)
       THEN fetch_formats(text)
       ELSE /\ format_grid' = "error"
            /\ UNCHANGED <<current_url, status_label, format_thread, fthreads>>
    /\ UNCHANGED <<selected_format, is_downloading, url_input, browse_btn, cancel_btn,
                   open_file_btn, progress, grid_catalog, last_downloaded_file,
                   temp_download_folder, is_downloading_phase, is_merging_phase,
                   download_thread, elapsed, dthreads, temp_dirs,
                   temp_files, queue, gui, early, transitioned, rm_failed>>

\* FormatFetchThread.run: extract_info returns (ok) or raises
FormatFetchThread_run(f, ok, msg) ==
    /\ fthreads[f].pc = "running"
    /\ Room(1)
    /\ fthreads' = [fthreads EXCEPT ![f].pc = "done"]
    /\ queue' = Append(queue, IF ok THEN Event("formats", f, 0, "")
                                    ELSE Event("fetch_error", f, 0, msg))
    /\ UNCHANGED <<appVars, dlVars, dthreads, temp_dirs, temp_files, gui, early, transitioned, rm_failed>>

\* YTDownloader.on_formats_fetched
on_formats_fetched ==
    /\ gui = "idle"
    /\ queue # <<>>
    /\ Head(queue).t = "formats"
    /\ queue' = Tail(queue)
    /\ format_grid' = "formats"
    /\ grid_catalog' = Head(queue).w
    /\ status_label' = "FormatsLoaded"
    /\ UNCHANGED <<selected_format, is_downloading, url_input, browse_btn, cancel_btn,
                   open_file_btn, progress, dlVars, dthreads, fthreads, temp_dirs,
                   temp_files, gui, early, transitioned, rm_failed>>

\* faulty variant: a failed fetch is started again for the same URL
on_format_error_Retries ==
    /\ gui = "idle"
    /\ queue # <<>>
    /\ Head(queue).t = "fetch_error"
    /\ queue' = Tail(queue)
    /\ format_grid' = "error"
    /\ status_label' = "FetchFailed"
    /\ IF NextFetch \in Fetches
       THEN /\ format_thread' = NextFetch
            /\ fthreads' = [fthreads EXCEPT ![NextFetch] =
                                [pc |-> "running", url |-> current_url]]
       ELSE UNCHANGED <<format_thread, fthreads>>
    /\ UNCHANGED <<selected_format, is_downloading, url_input, browse_btn, cancel_btn,
                   open_file_btn, progress, grid_catalog, current_url,
                   last_downloaded_file, temp_download_folder, is_downloading_phase,
                   is_merging_phase, download_thread, elapsed, dthreads,
                   temp_dirs, temp_files, gui, early, transitioned, rm_failed>>

\* YTDownloader.on_format_error
on_format_error ==
    /\ gui = "idle"
    /\ queue # <<>>
    /\ Head(queue).t = "fetch_error"
    /\ queue' = Tail(queue)
    /\ format_grid' = "error"
    /\ status_label' = "FetchFailed"
    /\ UNCHANGED <<selected_format, is_downloading, url_input, browse_btn, cancel_btn,
                   open_file_btn, progress, grid_catalog, dlVars, dthreads, fthreads,
                   temp_dirs, temp_files, gui, early, transitioned, rm_failed>>

\* ------------------------------------------------------- download flow
NextSession == Cardinality({s \in Sessions : dthreads[s].pc # "unborn"}) + 1

\* YTDownloader.start_download
start_download ==
    /\ NextSession \in Sessions
    /\ is_downloading' = TRUE
    /\ url_input' = FALSE
    /\ browse_btn' = FALSE
    /\ cancel_btn' = TRUE
    /\ status_label' = "Starting"
    /\ progress' = 0
    /\ open_file_btn' = FALSE
    /\ is_downloading_phase' = TRUE
    /\ is_merging_phase' = FALSE
    /\ temp_dirs' = temp_dirs \cup {NextSession}
    /\ temp_download_folder' = NextSession
    /\ download_thread' = NextSession
    /\ dthreads' = [dthreads EXCEPT ![NextSession] = [pc |-> "running", cancelled |-> FALSE]]
    /\ early' = "open"
    /\ UNCHANGED <<format_grid, grid_catalog, current_url, last_downloaded_file,
                   format_thread, elapsed, fthreads, temp_files, queue,
                   gui, transitioned, rm_failed>>

\* faulty variant: the guard forgets the in-flight flag
CanStart_IgnoresFlag(sel) == sel # None

\* the guard of VelvetDownApp.start_download, for a selection sel
CanStart(sel) == sel # None /\ ~is_downloading

NoStart ==
    UNCHANGED <<is_downloading, url_input, browse_btn, cancel_btn, open_file_btn,
                progress, status_label, format_grid, grid_catalog, dlVars, envVars,
                early, transitioned, rm_failed>>

\* VelvetDownApp.start_download
app_start_download ==
    /\ gui = "idle"
    /\ selected_format' = selected_format
    /\ IF CanStart(selected_format) THEN start_download ELSE NoStart

\* ModernFormatGrid.on_format_selected: a click on a card of the shown catalog
on_format_selected ==
    /\ gui = "idle"
    /\ format_grid = "formats"
    /\ selected_format' = grid_catalog
    /\ IF CanStart(grid_catalog) THEN start_download ELSE NoStart

\* faulty variant: the hook does not look at the cancel flag
progress_hook_IgnoresCancel(s, hook_status, pct) ==
    /\ Running(s)
    /\ Room(1)
    /\ CASE hook_status = "downloading" ->
              /\ queue' = Append(queue, Event("percent", s, pct, ""))
              /\ UNCHANGED <<dthreads, temp_files>>
         [] hook_status = "finished" ->
              /\ s \in temp_dirs
              /\ queue' = Append(queue, Event("percent", s, 100, ""))
              /\ dthreads' = [dthreads EXCEPT ![s].pc = "hook_finished"]
              /\ temp_files' = temp_files \cup {s}
         [] hook_status = "error" ->
              /\ queue' = Append(queue, Event("other", s, 0, ""))
              /\ UNCHANGED <<dthreads, temp_files>>
    /\ UNCHANGED <<appVars, dlVars, fthreads, temp_dirs, gui, early, transitioned, rm_failed>>

\* ------------------------------------------------------ DownloadThread
\* DownloadThread.progress_hook, called by the capability inside ydl.download:
\* with the cancel flag set it raises DownloadCancelled, which run() turns into
\* finished_signal(1, ""); otherwise it emits the progress line of the status.
\* For "finished" the capability has completed a file in the temp folder, and the
\* hook emits "[download] 100%" here and the "Processing..." line in
\* progress_hook_processing
progress_hook(s, hook_status, pct) ==
    /\ Running(s)
    /\ Room(1)
    /\ IF dthreads[s].cancelled
       THEN /\ queue' = Append(queue, Event("finished", s, 1, ""))
            /\ dthreads' = [dthreads EXCEPT ![s].pc = "done"]
            /\ UNCHANGED temp_files
       ELSE CASE hook_status = "downloading" ->
                   /\ queue' = Append(queue, Event("percent", s, pct, ""))
                   /\ UNCHANGED <<dthreads, temp_files>>
              [] hook_status = "finished" ->
                   /\ s \in temp_dirs
                   /\ queue' = Append(queue, Event("percent", s, 100, ""))
                   /\ dthreads' = [dthreads EXCEPT ![s].pc = "hook_finished"]
                   /\ temp_files' = temp_files \cup {s}
              [] hook_status = "error" ->
                   /\ queue' = Append(queue, Event("other", s, 0, ""))
                   /\ UNCHANGED <<dthreads, temp_files>>
    /\ UNCHANGED <<appVars, dlVars, fthreads, temp_dirs, gui, early, transitioned, rm_failed>>

\* DownloadThread.progress_hook, status "finished", its second emit
progress_hook_processing(s) ==
    /\ dthreads[s].pc = "hook_finished"
    /\ Room(1)
    /\ queue' = Append(queue, Event("merge", s, 0, ""))
    /\ dthreads' = [dthreads EXCEPT ![s].pc = "running"]
    /\ UNCHANGED <<appVars, dlVars, fthreads, temp_dirs, temp_files, gui, early, transitioned, rm_failed>>

\* DownloadThread.run, ydl.download raises DownloadError, OSError or another
\* exception: ErrorHandler's message is emitted on the error signal
DownloadThread_raise(s, msg) ==
    /\ Running(s)
    /\ Room(1)
    /\ queue' = Append(queue, Event("error", s, 0, msg))
    /\ dthreads' = [dthreads EXCEPT ![s].pc = "done"]
    /\ UNCHANGED <<appVars, dlVars, fthreads, temp_dirs, temp_files, gui, early, transitioned, rm_failed>>

\* faulty variant: a download that left no file ends without a terminal signal
ScanResult_NoFailure(s, msg) ==
    IF s \in temp_dirs /\ s \in temp_files THEN Event("finished", s, 0, "")
    ELSE Event("other", s, 0, "")

\* the terminal signal of DownloadThread.run once ydl.download has returned:
\* the scan of temp_dir for the output file
ScanResult(s, msg) ==
    IF s \notin temp_dirs THEN Event("error", s, 0, msg)         \* listdir raises OSError
    ELSE IF s \in temp_files THEN Event("finished", s, 0, "")    \* largest candidate
    ELSE Event("error", s, 0, "NoOutputFile")

\* DownloadThread.run, ydl.download returns
DownloadThread_return(s, msg) ==
    /\ Running(s)
    /\ Room(1)
    /\ queue' = Append(queue, ScanResult(s, msg))
    /\ dthreads' = [dthreads EXCEPT ![s].pc = "done"]
    /\ UNCHANGED <<appVars, dlVars, fthreads, temp_dirs, temp_files, gui, early, transitioned, rm_failed>>

\* ------------------------------------------- handlers of worker signals
Delivered(t) == gui = "idle" /\ queue # <<>> /\ Head(queue).t = t /\ queue' = Tail(queue)

LogProgress(s) ==
    early' = IF s = download_thread /\ early = "open" THEN "closed" ELSE early

\* YTDownloader.update_progress, a line with "Processing" / "[ffmpeg]" / "Merging formats"
update_progress_merge ==
    /\ Delivered("merge")
    /\ IF ~is_merging_phase
       THEN /\ is_merging_phase' = TRUE
            /\ is_downloading_phase' = FALSE
            /\ progress' = 95
            /\ status_label' = "Merging"
            /\ transitioned' = transitioned \cup {Head(queue).w}
       ELSE UNCHANGED <<is_merging_phase, is_downloading_phase, progress, status_label,
                        transitioned>>
    /\ LogProgress(Head(queue).w)
    /\ UNCHANGED <<selected_format, is_downloading, url_input, browse_btn, cancel_btn,
                   open_file_btn, format_grid, grid_catalog, current_url,
                   last_downloaded_file, temp_download_folder, download_thread,
                   format_thread, elapsed, dthreads, fthreads, temp_dirs,
                   temp_files, gui, rm_failed>>

\* YTDownloader.update_progress, a line with a percentage.  The display is written
\* before QApplication.processEvents() runs, and nothing but last_progress_update
\* is written after it: the signals it delivers are the steps that follow this one,
\* and Tick lets them pass the throttle as they do inside processEvents
update_progress_percent ==
    /\ Delivered("percent")
    /\ IF is_downloading_phase /\ elapsed
       THEN /\ progress' = ActualProgress(Head(queue).p)
            /\ status_label' = "Downloading"
            /\ elapsed' = FALSE
       ELSE UNCHANGED <<progress, status_label, elapsed>>
    /\ LogProgress(Head(queue).w)
    /\ UNCHANGED <<selected_format, is_downloading, url_input, browse_btn, cancel_btn,
                   open_file_btn, format_grid, grid_catalog, current_url,
                   last_downloaded_file, temp_download_folder, is_downloading_phase,
                   is_merging_phase, download_thread, format_thread, dthreads,
                   fthreads, temp_dirs, temp_files, gui, transitioned, rm_failed>>

\* YTDownloader.update_progress, a line that matches neither pattern
update_progress_other ==
    /\ Delivered("other")
    /\ LogProgress(Head(queue).w)
    /\ UNCHANGED <<appVars, dlVars, dthreads, fthreads, temp_dirs, temp_files, gui,
                   transitioned, rm_failed>>

\* more than 0.1 s of wall time pass since last_progress_update
Tick ==
    /\ ~elapsed
    /\ elapsed' = TRUE
    /\ UNCHANGED <<appVars, current_url, last_downloaded_file, temp_download_folder,
                   is_downloading_phase, is_merging_phase, download_thread,
                   format_thread, envVars, early, transitioned, rm_failed>>

\* faulty variant: on_download_error shows the message but does not reset the UI
on_download_error_NoReset(rm_ok) ==
    /\ Delivered("error")
    /\ cleanup_temp(temp_dirs, temp_files, rm_ok)
    /\ status_label' = Head(queue).m
    /\ UNCHANGED <<is_downloading, url_input, browse_btn, cancel_btn>>
    /\ UNCHANGED <<selected_format, open_file_btn, progress, format_grid, grid_catalog,
                   dlVars, dthreads, fthreads, gui, early, transitioned>>

\* YTDownloader.on_download_error
on_download_error(rm_ok) ==
    /\ Delivered("error")
    /\ cleanup_temp(temp_dirs, temp_files, rm_ok)
    /\ reset_ui
    /\ status_label' = Head(queue).m
    /\ UNCHANGED <<selected_format, open_file_btn, progress, format_grid, grid_catalog,
                   dlVars, dthreads, fthreads, gui, early, transitioned>>

\* faulty variant: the success path does not show the open-file button
finished_moved_NoOpenButton(w, rm_ok) ==
    /\ last_downloaded_file' = w
    /\ progress' = 100
    /\ status_label' = "Completed"
    /\ UNCHANGED open_file_btn
    /\ transitioned' = transitioned \cup {w}
    /\ cleanup_temp(temp_dirs, temp_files \ {w}, rm_ok)

\* YTDownloader.download_finished, the try block: shutil.move has moved the file
finished_moved(w, rm_ok) ==
    /\ last_downloaded_file' = w
    /\ progress' = 100
    /\ status_label' = "Completed"
    /\ open_file_btn' = TRUE
    /\ transitioned' = transitioned \cup {w}
    /\ cleanup_temp(temp_dirs, temp_files \ {w}, rm_ok)

\* faulty variant: a failed move forgets the file moved before
finished_move_error_ForgetsFile(move, rm_ok) ==
    /\ status_label' = "MoveFailed:" \o move
    /\ last_downloaded_file' = None
    /\ cleanup_temp(temp_dirs, temp_files, rm_ok)
    /\ UNCHANGED <<progress, open_file_btn, transitioned>>

\* YTDownloader.download_finished, the except blocks: shutil.move raised
finished_move_error(move, rm_ok) ==
    /\ status_label' = "MoveFailed:" \o move
    /\ cleanup_temp(temp_dirs, temp_files, rm_ok)
    /\ UNCHANGED <<last_downloaded_file, progress, open_file_btn, transitioned>>

\* YTDownloader.download_finished, the else block: no file to move
finished_no_file(rm_ok) ==
    /\ progress' = 0
    /\ status_label' = "NoFileProduced"
    /\ cleanup_temp(temp_dirs, temp_files, rm_ok)
    /\ UNCHANGED <<last_downloaded_file, open_file_btn, transitioned>>

\* exit_code == 0 and temp_file_path and os.path.isfile(temp_file_path)
HasFile(e) == e.p = 0 /\ e.w \in temp_files

\* faulty variant: download_finished does not call _reset_ui
download_finished_NoReset(move, rm_ok) ==
    /\ Delivered("finished")
    /\ UNCHANGED <<is_downloading, url_input, browse_btn, cancel_btn>>
    /\ IF HasFile(Head(queue))
       THEN IF move = "ok"
            THEN finished_moved(Head(queue).w, rm_ok)
            ELSE finished_move_error(move, rm_ok)
       ELSE finished_no_file(rm_ok)
    /\ UNCHANGED <<selected_format, format_grid, grid_catalog, current_url,
                   temp_download_folder, is_downloading_phase, is_merging_phase,
                   download_thread, format_thread, elapsed, dthreads,
                   fthreads, gui, early>>

\* YTDownloader.download_finished; move is what shutil.move does
download_finished(move, rm_ok) ==
    /\ Delivered("finished")
    /\ reset_ui
    /\ IF HasFile(Head(queue))
       THEN IF move = "ok"
            THEN finished_moved(Head(queue).w, rm_ok)
            ELSE finished_move_error(move, rm_ok)
       ELSE finished_no_file(rm_ok)
    /\ UNCHANGED <<selected_format, format_grid, grid_catalog, current_url,
                   temp_download_folder, is_downloading_phase, is_merging_phase,
                   download_thread, format_thread, elapsed, dthreads,
                   fthreads, gui, early>>

\* ------------------------------------------------------------- cancel
LogCancel == early' = IF early = "open" THEN "cancelled" ELSE early

\* faulty variant: the tail of cancel_download leaves the progress bar as it is
cancel_reset_KeepsProgress(rm_ok) ==
    /\ reset_ui
    /\ status_label' = "Cancelled"
    /\ UNCHANGED progress
    /\ cleanup_temp(temp_dirs, temp_files, rm_ok)

\* the tail of YTDownloader.cancel_download, after the wait
cancel_reset(rm_ok) ==
    /\ reset_ui
    /\ status_label' = "Cancelled"
    /\ progress' = 0
    /\ cleanup_temp(temp_dirs, temp_files, rm_ok)

\* YTDownloader.cancel_download (the cancel button is clicked), up to the wait:
\* with a running thread the flag is set and the control context blocks in
\* wait(3000); otherwise the handler runs to its end
cancel_download(rm_ok) ==
    /\ gui = "idle"
    /\ cancel_btn
    /\ LogCancel
    /\ IF DownloadThreadIsRunning
       THEN /\ dthreads' = [dthreads EXCEPT ![download_thread].cancelled = TRUE]
            /\ gui' = "cancel_wait"
            /\ UNCHANGED <<appVars, dlVars, fthreads, temp_dirs, temp_files, queue,
                           transitioned, rm_failed>>
       ELSE /\ cancel_reset(rm_ok)
            /\ UNCHANGED <<selected_format, open_file_btn, format_grid, grid_catalog,
                           dlVars, dthreads, fthreads, queue, gui, transitioned>>

\* wait(3000) returns: the thread has finished, or 3 s have passed (timed_out)
cancel_download_resume(timed_out, rm_ok) ==
    /\ gui = "cancel_wait"
    /\ timed_out = DownloadThreadIsRunning
    /\ gui' = "idle"
    /\ cancel_reset(rm_ok)
    /\ elapsed' = (elapsed \/ timed_out)
    /\ UNCHANGED <<selected_format, open_file_btn, format_grid, grid_catalog,
                   current_url, last_downloaded_file, temp_download_folder,
                   is_downloading_phase, is_merging_phase, download_thread,
                   format_thread, dthreads, fthreads, queue,
                   early, transitioned>>

\* ------------------------------------------------------ specification
\* Spec follows the downloads of one fetched catalog: a URL that would start a
\* second FormatFetchThread is not typed
FirstFetch(text, connected) ==
    (text # "" /\ connected /\ is_valid_youtube_url(text)) => format_thread = None

\* a start request that VelvetDownApp.start_download must turn down
Rejected(sel) == sel = None \/ is_downloading

Ran(op, w, arg) == last' = Last(op, w, arg) /\ UNCHANGED pureVars
\* a step of a thread: no handler of the control context runs
Quiet == UNCHANGED <<last, pureVars>>

Next ==
    \/ \E text \in UrlTexts, connected \in BOOLEAN :
          /\ FirstFetch(text, connected)
          /\ on_url_changed(text, connected)
          /\ Ran("other", None, "")
    \/ \E f \in Fetches, ok \in BOOLEAN, msg \in ErrMsgs :
          FormatFetchThread_run(f, ok, msg) /\ Quiet
    \/ on_formats_fetched /\ Ran("other", None, "")
    \/ on_format_error /\ Ran("other", None, "")
    \/ /\ on_format_selected
       /\ Ran(IF Rejected(grid_catalog) THEN "rejected" ELSE "start", None, "")
    \/ /\ app_start_download
       /\ Ran(IF Rejected(selected_format) THEN "rejected" ELSE "start", None, "")
    \/ \E s \in Sessions, h \in {"downloading", "finished", "error"}, pct \in RawPcts :
          progress_hook(s, h, pct) /\ Quiet
    \/ \E s \in Sessions : progress_hook_processing(s) /\ Quiet
    \/ \E s \in Sessions, msg \in ErrMsgs : DownloadThread_raise(s, msg) /\ Quiet
    \/ \E s \in Sessions, msg \in ErrMsgs : DownloadThread_return(s, msg) /\ Quiet
    \/ update_progress_merge /\ Ran("other", None, "")
    \/ update_progress_percent /\ Ran("other", None, "")
    \/ update_progress_other /\ Ran("other", None, "")
    \/ Tick /\ Quiet
    \/ \E rm_ok \in BOOLEAN :
          on_download_error(rm_ok) /\ Ran("error", Head(queue).w, Head(queue).m)
    \/ \E move \in MoveOutcomes, rm_ok \in BOOLEAN :
          /\ download_finished(move, rm_ok)
          /\ Ran("finished", Head(queue).w,
                 IF HasFile(Head(queue)) THEN move ELSE "nomove")
    \/ \E rm_ok \in BOOLEAN :
          /\ cancel_download(rm_ok)
          /\ IF DownloadThreadIsRunning THEN Quiet ELSE Ran("cancel", None, "")
    \/ \E timed_out \in BOOLEAN, rm_ok \in BOOLEAN :
          /\ cancel_download_resume(timed_out, rm_ok)
          /\ Ran("cancel", None, IF timed_out THEN "timeout" ELSE "")

Spec == Init /\ [][Next]_vars

\* The same steps under the scheduling the program runs with.  The event loop of
\* the control context handles a posted signal when it is idle; wait(3000) returns
\* after 3 s at the latest; a DownloadThread is never held up by the signals
\* already posted (the bound on the queue is the model's, not Qt's), goes on
\* after the hook has emitted, and ydl.download ends: it returns, raises, or
\* calls the hook with the cancel flag set
DeliverSignal ==
    \/ on_formats_fetched /\ Ran("other", None, "")
    \/ on_format_error /\ Ran("other", None, "")
    \/ update_progress_merge /\ Ran("other", None, "")
    \/ update_progress_percent /\ Ran("other", None, "")
    \/ update_progress_other /\ Ran("other", None, "")
    \/ \E rm_ok \in BOOLEAN :
          on_download_error(rm_ok) /\ Ran("error", Head(queue).w, Head(queue).m)
    \/ \E move \in MoveOutcomes, rm_ok \in BOOLEAN :
          /\ download_finished(move, rm_ok)
          /\ Ran("finished", Head(queue).w,
                 IF HasFile(Head(queue)) THEN move ELSE "nomove")

WaitReturns ==
    \E timed_out \in BOOLEAN, rm_ok \in BOOLEAN :
        /\ cancel_download_resume(timed_out, rm_ok)
        /\ Ran("cancel", None, IF timed_out THEN "timeout" ELSE "")

HookGoesOn(s) == progress_hook_processing(s) /\ Quiet

DownloadEnds(s) ==
    \/ \E msg \in ErrMsgs : DownloadThread_raise(s, msg) /\ Quiet
    \/ \E msg \in ErrMsgs : DownloadThread_return(s, msg) /\ Quiet
    \/ /\ dthreads[s].cancelled
       /\ \E h \in {"downloading", "finished", "error"}, pct \in RawPcts :
             progress_hook(s, h, pct) /\ Quiet

SpecOfDownloads ==
    /\ Init
    /\ [][Next]_vars
    /\ WF_vars(DeliverSignal)
    /\ WF_vars(WaitReturns)
    /\ \A s \in Sessions : SF_vars(HookGoesOn(s)) /\ SF_vars(DownloadEnds(s))

\* The format fetching subsystem taken alone: every text may be typed at any
\* time (textChanged fires on_url_changed on every edit), and the record of the
\* handler that ran last keeps the text, what is_connected() returned and the
\* number of FormatFetchThread objects created before it ran
NextOfFetch ==
    \/ \E text \in FetchUrlTexts, connected \in BOOLEAN :
          /\ on_url_changed(text, connected)
          /\ Ran(IF connected THEN "url_online" ELSE "url_offline", NextFetch, text)
    \/ \E f \in Fetches, ok \in BOOLEAN, msg \in ErrMsgs :
          FormatFetchThread_run(f, ok, msg) /\ Quiet
    \/ on_formats_fetched /\ Ran("other", None, "")
    \/ on_format_error /\ Ran("other", None, "")

SpecOfFetch == Init /\ [][NextOfFetch]_vars

\* The progress display of one download taken alone: the capability reports any
\* whole percentage between two calls of the hook, then a finished file
AllPcts == 0..100

NextOfProgress ==
    \/ \E text \in UrlTexts, connected \in BOOLEAN :
          /\ FirstFetch(text, connected)
          /\ on_url_changed(text, connected)
          /\ Ran("other", None, "")
    \/ \E f \in Fetches, ok \in BOOLEAN, msg \in ErrMsgs :
          FormatFetchThread_run(f, ok, msg) /\ Quiet
    \/ on_formats_fetched /\ Ran("other", None, "")
    \/ on_format_error /\ Ran("other", None, "")
    \/ /\ on_format_selected
       /\ Ran(IF Rejected(grid_catalog) THEN "rejected" ELSE "start", None, "")
    \/ \E s \in Sessions, pct \in AllPcts :
          progress_hook(s, "downloading", pct) /\ Quiet
    \/ \E s \in Sessions : progress_hook(s, "finished", 100) /\ Quiet
    \/ \E s \in Sessions : progress_hook_processing(s) /\ Quiet
    \/ update_progress_merge /\ Ran("other", None, "")
    \/ update_progress_percent /\ Ran("other", None, "")
    \/ Tick /\ Quiet

SpecOfProgress == Init /\ [][NextOfProgress]_vars

\* ------------------------------------------------------------ shutdown
FormatThreadIsRunning == format_thread # None /\ fthreads[format_thread].pc = "running"

\* YTDownloader.cleanup_processes, its second if: cancel() and wait(1000) when the
\* DownloadThread is running; otherwise it returns and closeEvent accepts
cleanup_download_thread ==
    IF DownloadThreadIsRunning
    THEN /\ dthreads' = [dthreads EXCEPT ![download_thread].cancelled = TRUE]
         /\ gui' = "close_wait_download"
    ELSE /\ gui' = "closed"
         /\ UNCHANGED dthreads

\* VelvetDownApp.closeEvent calling cleanup_processes, up to its first wait;
\* killed says whether terminate() stops the FormatFetchThread at once
closeEvent(killed) ==
    /\ gui = "idle"
    /\ IF FormatThreadIsRunning
       THEN /\ fthreads' = IF killed THEN [fthreads EXCEPT ![format_thread].pc = "done"]
                                     ELSE fthreads
            /\ gui' = "close_wait_fetch"
            /\ UNCHANGED dthreads
       ELSE /\ cleanup_download_thread
            /\ UNCHANGED fthreads
    /\ UNCHANGED <<appVars, dlVars, temp_dirs, temp_files, queue, early, transitioned,
                   rm_failed>>

\* format_thread.wait(1000) returns, stopped or not
cleanup_processes_resume_fetch ==
    /\ gui = "close_wait_fetch"
    /\ cleanup_download_thread
    /\ UNCHANGED <<appVars, dlVars, fthreads, temp_dirs, temp_files, queue, early,
                   transitioned, rm_failed>>

\* faulty variant: the wait for the DownloadThread has no time limit
cleanup_processes_resume_download_NoLimit ==
    /\ gui = "close_wait_download"
    /\ ~DownloadThreadIsRunning
    /\ gui' = "closed"
    /\ UNCHANGED <<appVars, dlVars, dthreads, fthreads, temp_dirs, temp_files, queue,
                   early, transitioned, rm_failed>>

\* download_thread.wait(1000) returns, stopped or not; closeEvent accepts
cleanup_processes_resume_download ==
    /\ gui = "close_wait_download"
    /\ gui' = "closed"
    /\ UNCHANGED <<appVars, dlVars, dthreads, fthreads, temp_dirs, temp_files, queue,
                   early, transitioned, rm_failed>>

ResumeFetchWait == cleanup_processes_resume_fetch /\ Quiet
ResumeDownloadWait == cleanup_processes_resume_download /\ Ran("close", None, "")

\* The window being closed at any time while URLs are typed, formats fetched and
\* downloads started, fail or are called back (no cancel button, no finished
\* file: they do not change which threads are running at the close).  The two
\* waits of cleanup_processes are time-boxed, so they return whatever the
\* threads do
NextOfShutdown ==
    \/ \E text \in UrlTexts, connected \in BOOLEAN :
          on_url_changed(text, connected) /\ Ran("other", None, "")
    \/ \E f \in Fetches, ok \in BOOLEAN, msg \in ErrMsgs :
          FormatFetchThread_run(f, ok, msg) /\ Quiet
    \/ on_formats_fetched /\ Ran("other", None, "")
    \/ on_format_error /\ Ran("other", None, "")
    \/ /\ on_format_selected
       /\ Ran(IF Rejected(grid_catalog) THEN "rejected" ELSE "start", None, "")
    \/ \E s \in Sessions, pct \in RawPcts :
          progress_hook(s, "downloading", pct) /\ Quiet
    \/ \E s \in Sessions, msg \in ErrMsgs : DownloadThread_raise(s, msg) /\ Quiet
    \/ update_progress_percent /\ Ran("other", None, "")
    \/ Tick /\ Quiet
    \/ \E rm_ok \in BOOLEAN :
          on_download_error(rm_ok) /\ Ran("error", Head(queue).w, Head(queue).m)
    \/ \E killed \in BOOLEAN :
          /\ closeEvent(killed)
          /\ IF FormatThreadIsRunning \/ DownloadThreadIsRunning
             THEN Quiet ELSE Ran("close", None, "")
    \/ ResumeFetchWait
    \/ ResumeDownloadWait

SpecOfShutdown ==
    /\ Init
    /\ [][NextOfShutdown]_vars
    /\ WF_vars(ResumeFetchWait)
    /\ WF_vars(ResumeDownloadWait)

\* ------------------------------------- on_formats_fetched taken alone
\* Python's None in a field that otherwise holds a string
NoneStr == "<None>"
Truthy(x) == x \notin {NoneStr, ""}

\* one record of info['formats']; format_id is split into its stem and suffix
Fmt(stem, suffix, acodec, vcodec, protocol, filesize, approx, resolution, ext) ==
    [format_id |-> <<stem, suffix>>, acodec |-> acodec, vcodec |-> vcodec,
     protocol |-> protocol, filesize |-> filesize, filesize_approx |-> approx,
     resolution |-> resolution, ext |-> ext]

\* the records the extraction capability reports; a size of 0 is None / absent
RawFormats ==
    { Fmt("137", "", "mp4a", "avc1", "https", 400000, 0, "1920x1080", "mp4"),
      Fmt("299", "", "mp4a", "avc1", "https", 0, 600000, "1920x1080", "mp4"),
      Fmt("22", "", "mp4a", "avc1", "https", 500000, 0, "1280x720", "mp4"),
      Fmt("135", "", "mp4a", "avc1", "https", 250000, 0, "854x480", "mp4"),
      Fmt("160", "", "mp4a", "avc1", "https", 0, 0, "256x144", "mp4"),
      Fmt("18", "", "mp4a", "avc1", "https", 100000, 0, "640x360", "mp4"),
      Fmt("x1", "", "mp4a", "avc1", "https", 700000, 0, "1080xp", "mp4"),
      Fmt("x2", "", "mp4a", "avc1", "https", 700000, 0, NoneStr, "mp4"),
      Fmt("136", "", "none", "avc1", "https", 800000, 0, "1280x720", "mp4"),
      Fmt("140", "", "mp4a", "none", "https", 300000, 0, "audio only", "m4a"),
      Fmt("140", "-DRC", "mp4a", "none", "https", 900000, 0, "audio only", "m4a"),
      Fmt("141", "", "mp4a", NoneStr, NoneStr, 800000, 0, "audio only", "M4A"),
      Fmt("600", "", "vorbis", "none", "https", 200000, 0, "audio only", "ogg"),
      Fmt("251", "", "opus", "none", "m3u8_native", 200000, 0, "audio only", "webm") }

\* the lists of at most n records
RECURSIVE RawLists(_)
RawLists(n) ==
    IF n = 0 THEN {<<>>}
    ELSE LET shorter == RawLists(n - 1) IN
         shorter \cup {Append(l, f) : l \in {x \in shorter : Len(x) = n - 1}, f \in RawFormats}

\* str.lower() on the extensions and suffixes that occur
Lower(str) ==
    CASE str = "M4A" -> "m4a"
      [] str = "-DRC" -> "-drc"
      [] OTHER -> str

\* how 'x' in res_str and map(int, res_str.split('x')) read a resolution string
ResShape(res) ==
    CASE res = "1920x1080" -> [x |-> TRUE, ints |-> TRUE, height |-> 1080]
      [] res = "1280x720" -> [x |-> TRUE, ints |-> TRUE, height |-> 720]
      [] res = "854x480" -> [x |-> TRUE, ints |-> TRUE, height |-> 480]
      [] res = "640x360" -> [x |-> TRUE, ints |-> TRUE, height |-> 360]
      [] res = "256x144" -> [x |-> TRUE, ints |-> TRUE, height |-> 144]
      [] res = "1080xp" -> [x |-> TRUE, ints |-> FALSE, height |-> 0]
      [] OTHER -> [x |-> FALSE, ints |-> FALSE, height |-> 0]

has_audio(fmt) == Truthy(fmt.acodec) /\ fmt.acodec # "none"
has_video(fmt) == Truthy(fmt.vcodec) /\ fmt.vcodec # "none"

\* filesize = fmt.get('filesize', 0) or fmt.get('filesize_approx', 0)
size_bytes(fmt) == IF fmt.filesize # 0 THEN fmt.filesize ELSE fmt.filesize_approx

\* the dict appended to video_formats / stored in audio_only_by_ext
Entry(fmt, ext, resolution) ==
    [format_code |-> fmt.format_id, ext |-> ext, resolution |-> resolution,
     size_bytes |-> size_bytes(fmt)]

\* '-drc' in format_id.lower()
HasDrc(fmt) == Lower(fmt.format_id[2]) = "-drc"

preferred_audio_exts == {"mp3", "m4a", "webm", "aac"}

\* faulty variant: the DRC test is left out
AudioAccepted_WithDrc(fmt) ==
    /\ Lower(fmt.ext) \in preferred_audio_exts
    /\ fmt.protocol \in {"https", NoneStr}

\* an audio-only record that is considered for audio_only_by_ext
AudioAccepted(fmt) ==
    /\ ~HasDrc(fmt)
    /\ Lower(fmt.ext) \in preferred_audio_exts
    /\ fmt.protocol \in {"https", NoneStr}

\* faulty variant: the later record always replaces the earlier one
Larger_LastWins(entry, current) == TRUE

\* entry['size_bytes'] > current['size_bytes']
Larger(entry, current) == entry.size_bytes > current.size_bytes

\* the first loop, video part: the records with audio and video, in order
RECURSIVE video_formats(_)
video_formats(fs) ==
    IF fs = <<>> THEN <<>>
    ELSE LET rest == video_formats(Tail(fs))
             fmt == Head(fs)
         IN IF has_audio(fmt) /\ has_video(fmt)
            THEN <<Entry(fmt, fmt.ext, fmt.resolution)>> \o rest
            ELSE rest

\* audio_only_by_ext[ext] = entry: a present key keeps its place in the dict
PutAudio(d, entry) ==
    IF \E i \in 1..Len(d) : d[i].ext = entry.ext
    THEN [i \in 1..Len(d) |->
            IF d[i].ext = entry.ext /\ Larger(entry, d[i]) THEN entry ELSE d[i]]
    ELSE Append(d, entry)

\* the first loop, audio part: list(audio_only_by_ext.values()) after fs
RECURSIVE audio_only_by_ext(_)
audio_only_by_ext(fs) ==
    IF fs = <<>> THEN <<>>
    ELSE LET d == audio_only_by_ext(SubSeq(fs, 1, Len(fs) - 1))
             fmt == fs[Len(fs)]
         IN IF has_audio(fmt) /\ ~has_video(fmt) /\ AudioAccepted(fmt)
            THEN PutAudio(d, Entry(fmt, Lower(fmt.ext), "Audio"))
            ELSE d

target_resolutions == [r \in {"144p", "480p", "720p", "1080p"} |->
                         CASE r = "144p" -> 144 [] r = "480p" -> 480
                           [] r = "720p" -> 720 [] r = "1080p" -> 1080]

NoFmt == [format_code |-> <<"", "">>, ext |-> "", resolution |-> "", size_bytes |-> -1]

\* the second loop: filtered_formats after the entries vs
RECURSIVE filtered_formats(_)
filtered_formats(vs) ==
    IF vs = <<>> THEN [r \in DOMAIN target_resolutions |-> NoFmt]
    ELSE LET d == filtered_formats(SubSeq(vs, 1, Len(vs) - 1))
             fmt == vs[Len(vs)]
             shape == ResShape(fmt.resolution)
         IN IF shape.x /\ shape.ints
            THEN [r \in DOMAIN target_resolutions |->
                    IF /\ shape.height = target_resolutions[r]
                       /\ (d[r] = NoFmt \/ Larger(fmt, d[r]))
                    THEN fmt ELSE d[r]]
            ELSE d

\* faulty variant: the smallest resolution comes first
ordered_resolutions_Ascending == <<"144p", "480p", "720p", "1080p">>

ordered_resolutions == <<"1080p", "720p", "480p", "144p">>

\* [filtered_formats[r] for r in ordered_resolutions if r in filtered_formats]
RECURSIVE Present(_, _)
Present(d, rs) ==
    IF rs = <<>> THEN <<>>
    ELSE IF d[Head(rs)] # NoFmt THEN <<d[Head(rs)]>> \o Present(d, Tail(rs))
         ELSE Present(d, Tail(rs))

final_formats(fs) == Present(filtered_formats(video_formats(fs)), ordered_resolutions)

\* 'x' in res_str raises TypeError when 'resolution' is present and None
ParseRaises(fs) ==
    \E i \in 1..Len(fs) :
        has_audio(fs[i]) /\ has_video(fs[i]) /\ fs[i].resolution = NoneStr

\* what on_formats_fetched hands to format_grid for the list fs
Catalog(fs) ==
    IF ParseRaises(fs)
    THEN [grid |-> "error", video |-> <<>>, audio |-> <<>>]
    ELSE [grid |-> "formats", video |-> final_formats(fs), audio |-> audio_only_by_ext(fs)]

\* the finished signal of a FormatFetchThread carries any list of records
InitOfCatalog ==
    /\ ProgramInit
    /\ formats \in RawLists(MaxFormats)
    /\ shown = NotShown
    /\ ClassifyIdle
    /\ ScanIdle

\* YTDownloader.on_formats_fetched, the list it builds and shows
FormatsParsed ==
    /\ shown = NotShown
    /\ shown' = Catalog(formats)
    /\ UNCHANGED <<appVars, dlVars, envVars, obsVars, formats, error_text, error_type,
                   error_message, temp_listing, worker_result>>

SpecOfCatalog == InitOfCatalog /\ [][FormatsParsed]_vars

\* ------------------------- ErrorHandler.get_error_message taken alone
\* the words an exception text is made of
ErrorWords ==
    {<<"d", "n", "s">>,
     <<"D", "N", "S", " ", "l", "o", "o", "k", "u", "p">>,
     <<"c", "o", "n", "n", "e", "c", "t", "i", "o", "n", " ", "t", "i", "m", "e", "d", " ", "o", "u", "t">>,
     <<"t", "i", "m", "e", "d", " ", "o", "u", "t">>,
     <<"H", "T", "T", "P", " ", "4", "0", "3">>,
     <<"p", "a", "g", "e">>,
     <<"F", "o", "r", "m", "a", "t">>,
     <<"d", "i", "s", "k">>,
     <<"o", "o", "p", "s">>,
     <<"u", "n", "a", "v", "a", "i", "l", "a", "b", "l", "e">>,
     <<"P", "e", "r", "m", "i", "s", "s", "i", "o", "n">>,
     [i \in 1..98 |-> "z"]}

\* the non-empty texts of at most n words, joined by single spaces
RECURSIVE ErrorTexts(_)
ErrorTexts(n) ==
    IF n = 1 THEN ErrorWords
    ELSE LET shorter == ErrorTexts(n - 1) IN
         shorter \cup {t \o <<" ">> \o w : t \in shorter, w \in ErrorWords}

\* str.lower(), on the upper-case letters that occur
LowerChar(c) ==
    CASE c = "D" -> "d" [] c = "N" -> "n" [] c = "S" -> "s" [] c = "H" -> "h"
      [] c = "T" -> "t" [] c = "P" -> "p" [] c = "F" -> "f" [] OTHER -> c
LowerText(text) == [i \in 1..Len(text) |-> LowerChar(text[i])]

\* keyword in error_str
Contains(text, keyword) ==
    \E i \in 1..(Len(text) - Len(keyword) + 1) :
        SubSeq(text, i, i + Len(keyword) - 1) = keyword

\* faulty variant: the network group lacks 'dns' and 'connection'
KeywordGroups_NoDns ==
    <<
       [kind |-> "NETWORK",
        keywords |-> {<<"g", "e", "t", "a", "d", "d", "r", "i", "n", "f", "o">>,
                      <<"n", "e", "t", "w", "o", "r", "k">>,
                      <<"n", "o", " ", "r", "o", "u", "t", "e">>}],
       [kind |-> "AUTH",
        keywords |-> {<<"4", "0", "3">>,
                      <<"f", "o", "r", "b", "i", "d", "d", "e", "n">>,
                      <<"s", "i", "g", "n", " ", "i", "n">>,
                      <<"a", "u", "t", "h", "e", "n", "t", "i", "c", "a", "t", "i", "o", "n">>,
                      <<"u", "n", "a", "u", "t", "h", "o", "r", "i", "z", "e", "d">>}],
       [kind |-> "NOT_FOUND",
        keywords |-> {<<"4", "0", "4">>,
                      <<"n", "o", "t", " ", "f", "o", "u", "n", "d">>,
                      <<"u", "n", "a", "v", "a", "i", "l", "a", "b", "l", "e">>,
                      <<"r", "e", "m", "o", "v", "e", "d">>,
                      <<"d", "e", "l", "e", "t", "e", "d">>}],
       [kind |-> "AGE_RESTRICTED",
        keywords |-> {<<"a", "g", "e">>,
                      <<"r", "e", "s", "t", "r", "i", "c", "t", "e", "d">>}],
       [kind |-> "GEO_BLOCKED",
        keywords |-> {<<"g", "e", "o", "g", "r", "a", "p", "h", "i", "c">>,
                      <<"c", "o", "u", "n", "t", "r", "y">>}],
       [kind |-> "FORMAT",
        keywords |-> {<<"f", "o", "r", "m", "a", "t">>,
                      <<"n", "o", " ", "v", "i", "d", "e", "o", " ", "f", "o", "r", "m", "a", "t", "s">>}],
       [kind |-> "RATE_LIMIT",
        keywords |-> {<<"r", "a", "t", "e">>,
                      <<"t", "h", "r", "o", "t", "t", "l", "e">>,
                      <<"4", "2", "9">>}],
       [kind |-> "PERMISSION",
        keywords |-> {<<"p", "e", "r", "m", "i", "s", "s", "i", "o", "n">>,
                      <<"a", "c", "c", "e", "s", "s", " ", "d", "e", "n", "i", "e", "d">>}],
       [kind |-> "DISK_SPACE",
        keywords |-> {<<"d", "i", "s", "k">>,
                      <<"s", "p", "a", "c", "e">>,
                      <<"n", "o", " ", "s", "p", "a", "c", "e">>}]
    >>

\* the keyword lists of get_error_message, in the order they are tested
KeywordGroups ==
    <<
       [kind |-> "NETWORK",
        keywords |-> {<<"g", "e", "t", "a", "d", "d", "r", "i", "n", "f", "o">>,
                      <<"d", "n", "s">>,
                      <<"n", "e", "t", "w", "o", "r", "k">>,
                      <<"c", "o", "n", "n", "e", "c", "t", "i", "o", "n">>,
                      <<"n", "o", " ", "r", "o", "u", "t", "e">>}],
       [kind |-> "AUTH",
        keywords |-> {<<"4", "0", "3">>,
                      <<"f", "o", "r", "b", "i", "d", "d", "e", "n">>,
                      <<"s", "i", "g", "n", " ", "i", "n">>,
                      <<"a", "u", "t", "h", "e", "n", "t", "i", "c", "a", "t", "i", "o", "n">>,
                      <<"u", "n", "a", "u", "t", "h", "o", "r", "i", "z", "e", "d">>}],
       [kind |-> "NOT_FOUND",
        keywords |-> {<<"4", "0", "4">>,
                      <<"n", "o", "t", " ", "f", "o", "u", "n", "d">>,
                      <<"u", "n", "a", "v", "a", "i", "l", "a", "b", "l", "e">>,
                      <<"r", "e", "m", "o", "v", "e", "d">>,
                      <<"d", "e", "l", "e", "t", "e", "d">>}],
       [kind |-> "AGE_RESTRICTED",
        keywords |-> {<<"a", "g", "e">>,
                      <<"r", "e", "s", "t", "r", "i", "c", "t", "e", "d">>}],
       [kind |-> "GEO_BLOCKED",
        keywords |-> {<<"g", "e", "o", "g", "r", "a", "p", "h", "i", "c">>,
                      <<"c", "o", "u", "n", "t", "r", "y">>}],
       [kind |-> "FORMAT",
        keywords |-> {<<"f", "o", "r", "m", "a", "t">>,
                      <<"n", "o", " ", "v", "i", "d", "e", "o", " ", "f", "o", "r", "m", "a", "t", "s">>}],
       [kind |-> "RATE_LIMIT",
        keywords |-> {<<"r", "a", "t", "e">>,
                      <<"t", "h", "r", "o", "t", "t", "l", "e">>,
                      <<"4", "2", "9">>}],
       [kind |-> "PERMISSION",
        keywords |-> {<<"p", "e", "r", "m", "i", "s", "s", "i", "o", "n">>,
                      <<"a", "c", "c", "e", "s", "s", " ", "d", "e", "n", "i", "e", "d">>}],
       [kind |-> "DISK_SPACE",
        keywords |-> {<<"d", "i", "s", "k">>,
                      <<"s", "p", "a", "c", "e">>,
                      <<"n", "o", " ", "s", "p", "a", "c", "e">>}]
    >>

Matches(text, g) == \E keyword \in KeywordGroups[g].keywords : Contains(text, keyword)

\* faulty variant: the last group with a keyword in the text wins
get_error_message_LastMatch(error) ==
    LET error_str == LowerText(error)
        hits == {g \in DOMAIN KeywordGroups : Matches(error_str, g)}
    IN IF hits = {} THEN "GENERIC"
       ELSE KeywordGroups[CHOOSE g \in hits : \A h \in hits : g >= h].kind

\* ErrorHandler.get_error_message: the kind of the first group with a keyword in
\* the lower-cased text, GENERIC when there is none
get_error_message(error) ==
    LET error_str == LowerText(error)
        hits == {g \in DOMAIN KeywordGroups : Matches(error_str, g)}
    IN IF hits = {} THEN "GENERIC"
       ELSE KeywordGroups[CHOOSE g \in hits : \A h \in hits : g <= h].kind

\* str(error)[:100] keeps at most this many characters
MaxMessage == 100

\* the second component of what get_error_message returns: the fixed message of
\* the kind, or f"Error: {str(error)[:100]}" for GENERIC
user_message(error) ==
    IF get_error_message(error) = "GENERIC"
    THEN Message("Error: ", SubSeq(error, 1, Min(Len(error), MaxMessage)))
    ELSE Message(get_error_message(error), <<>>)

\* an exception with any non-empty text reaches get_error_message
InitOfClassify ==
    /\ ProgramInit
    /\ formats = <<>>
    /\ shown = NotShown
    /\ error_text \in ErrorTexts(MaxWords)
    /\ error_type = "unset"
    /\ error_message = NoMessage
    /\ ScanIdle

\* the except blocks of FormatFetchThread.run and DownloadThread.run call it
Classified ==
    /\ error_type = "unset"
    /\ error_type' = get_error_message(error_text)
    /\ error_message' = user_message(error_text)
    /\ UNCHANGED <<appVars, dlVars, envVars, obsVars, formats, shown, error_text,
                   temp_listing, worker_result>>

SpecOfClassify == InitOfClassify /\ [][Classified]_vars

\* ------------------------- the scan of DownloadThread.run taken alone
\* names of entries of the temp folder, as sequences of characters
EntryNames ==
    {<<"a", ".", "m", "p", "4">>,
     <<"b", ".", "m", "p", "4">>,
     <<"b", ".", "m", "p", "4", ".", "p", "a", "r", "t">>,
     <<"a", ".", "y", "t", "d", "l">>,
     <<"a", ".", "t", "m", "p">>,
     <<"a", ".", "t", "e", "m", "p">>,
     <<"a", ".", "P", "A", "R", "T">>,
     <<"p", "a", "r", "t">>}
\* what os.path.getsize gives for an entry; Unreadable stands for an exception
Unreadable == -1
EntrySizes == {Unreadable, 0, 5, 9}
DirEntries == [name : EntryNames, size : EntrySizes]

\* the temp folders of at most n entries, no two with the same name
RECURSIVE Listings(_)
Listings(n) ==
    IF n = 0 THEN {{}}
    ELSE LET smaller == Listings(n - 1) IN
         smaller \cup UNION {{l \cup {e} : e \in {d \in DirEntries :
                                                      \A x \in l : x.name # d.name}} :
                              l \in {x \in smaller : Cardinality(x) = n - 1}}

\* ord() of the characters that occur in EntryNames
Ord(c) ==
    CASE c = "." -> 46 [] c = "4" -> 52 [] c = "A" -> 65 [] c = "P" -> 80
      [] c = "R" -> 82 [] c = "T" -> 84 [] c = "a" -> 97 [] c = "b" -> 98
      [] c = "d" -> 100 [] c = "e" -> 101 [] c = "l" -> 108 [] c = "m" -> 109
      [] c = "p" -> 112 [] c = "r" -> 114 [] c = "t" -> 116 [] c = "y" -> 121

\* str < str
RECURSIVE StrLess(_, _)
StrLess(a, b) ==
    IF b = <<>> THEN FALSE
    ELSE IF a = <<>> THEN TRUE
    ELSE IF Head(a) # Head(b) THEN Ord(Head(a)) < Ord(Head(b))
    ELSE StrLess(Tail(a), Tail(b))

\* str.endswith(suffix)
EndsWith(name, suffix) ==
    /\ Len(name) >= Len(suffix)
    /\ SubSeq(name, Len(name) - Len(suffix) + 1, Len(name)) = suffix

\* faulty variant: '.temp' is missing from the tuple of suffixes
partial_suffixes_NoTemp ==
    {<<".", "p", "a", "r", "t">>, <<".", "y", "t", "d", "l">>, <<".", "t", "m", "p">>}

\* ('.part', '.ytdl', '.tmp', '.temp')
partial_suffixes ==
    {<<".", "p", "a", "r", "t">>, <<".", "y", "t", "d", "l">>, <<".", "t", "m", "p">>,
     <<".", "t", "e", "m", "p">>}

\* candidates = [f for f in os.listdir(temp_dir) if not f.endswith(...)]
candidates(entries) ==
    {e \in entries : ~\E suffix \in partial_suffixes : EndsWith(e.name, suffix)}

\* files_with_size: the candidates whose getsize did not raise
files_with_size(cands) == {e \in cands : e.size # Unreadable}

\* (size, path) tuples compare by size, then by path
TupleLess(a, b) == a.size < b.size \/ (a.size = b.size /\ StrLess(a.name, b.name))

\* files_with_size.sort(reverse=True); final_path = files_with_size[0][1]
final_path(fws) == (CHOOSE e \in fws : \A x \in fws : x = e \/ TupleLess(x, e)).name

\* DownloadThread.run after ydl.download has returned: the signal it ends on
DownloadThread_scan(listing) ==
    IF ~listing.exists
    THEN [signal |-> "error", arg |-> <<"O", "S", "E", "r", "r", "o", "r">>]
    ELSE IF candidates(listing.entries) = {}
    THEN [signal |-> "error", arg |-> <<"N", "o", " ", "o", "u", "t", "p", "u", "t">>]
    ELSE IF files_with_size(candidates(listing.entries)) = {}
    THEN [signal |-> "error", arg |-> <<"N", "o", " ", "v", "a", "l", "i", "d">>]
    ELSE [signal |-> "finished",
          arg |-> final_path(files_with_size(candidates(listing.entries)))]

\* ydl.download returns with any temp folder, or with the folder removed
InitOfScan ==
    /\ ProgramInit
    /\ formats = <<>>
    /\ shown = NotShown
    /\ ClassifyIdle
    /\ temp_listing \in [exists : {TRUE}, entries : Listings(MaxEntries)]
                        \cup {[exists |-> FALSE, entries |-> {}]}
    /\ worker_result = NoResult

Scanned ==
    /\ worker_result = NoResult
    /\ worker_result' = DownloadThread_scan(temp_listing)
    /\ UNCHANGED <<appVars, dlVars, envVars, obsVars, formats, shown, error_text,
                   error_type, error_message, temp_listing>>

SpecOfScan == InitOfScan /\ [][Scanned]_vars

\* ------------------------------------------------------------- claims
DownloadEvents == {"percent", "merge", "other", "error", "finished"}
\* no signal of DownloadThread s is waiting to be delivered
NoEventsOf(s) ==
    \A i \in 1..Len(queue) : ~(queue[i].t \in DownloadEvents /\ queue[i].w = s)
\* the temp folder is gone, or the rmtree that should have removed it raised
GoneOrRmFailed(d) == d \notin temp_dirs \/ d \in rm_failed
UiReset == ~is_downloading /\ url_input /\ ~cancel_btn

\* C1: at most one DownloadThread is running at any time, whatever the order of
\* starts, cancels, worker events and wait timeouts.
C1_AtMostOneDownloadThread ==
    Cardinality({s \in Sessions : IsRunning(s)}) <= 1

\* C2: a start request made with no format selected or with the in-flight flag
\* set changes nothing: no temp folder, no DownloadThread, no display change.
C2_RejectedStartIsNoOp ==
    [][ (\/ app_start_download /\ Rejected(selected_format)
         \/ on_format_selected /\ Rejected(grid_catalog))
        => UNCHANGED <<temp_dirs, temp_files, dthreads, download_thread,
                       temp_download_folder, is_downloading, url_input, browse_btn,
                       cancel_btn, open_file_btn, progress, status_label,
                       format_grid>> ]_vars

\* a request has just been turned down while a download is in flight
C2_Witness == last.op = "rejected" /\ is_downloading /\ selected_format # None

\* C3: a download cancelled before any of its progress lines was delivered ends,
\* once its thread has stopped and its signals are handled, with the display
\* saying cancelled and its temp folder gone.
C3_EarlyCancelEndsCancelled ==
    (/\ early = "cancelled"
     /\ dthreads[download_thread].cancelled
     /\ gui = "idle"
     /\ ~IsRunning(download_thread)
     /\ NoEventsOf(download_thread))
    => (status_label = "Cancelled" /\ download_thread \notin temp_dirs)

C5_ProgressMonotone ==
    /\ [](status_label = "Downloading" => progress <= 95)
    /\ [][ (is_downloading /\ is_downloading' /\ download_thread' = download_thread)
           => progress' >= progress ]_vars

\* C6: every displayed value is at most 95 while the status says downloading and
\* while a download is in flight, it is exactly 95 when the status says merging,
\* and exactly 100 when the status says completed.
C6_DisplayedSequence ==
    /\ status_label = "Downloading" => progress <= 95
    /\ status_label = "Merging" => progress = 95
    /\ status_label = "Completed" => progress = 100
    /\ is_downloading => progress <= 95

\* a download that went through the merge line has completed
C6_Witness ==
    /\ status_label = "Completed"
    /\ progress = 100
    /\ is_merging_phase
    /\ last_downloaded_file \in transitioned

\* C7: once the Merging or Completed transition of a download has been applied
\* to the display, no percent line of that download changes the display.
C7_NoDownloadingAfterTransition ==
    [][ (/\ gui = "idle"
         /\ queue # <<>>
         /\ Head(queue).t = "percent"
         /\ Head(queue).w \in transitioned
         /\ queue' = Tail(queue))
        => UNCHANGED <<progress, status_label>> ]_vars

C9_ErrorResets ==
    last.op = "error" => (UiReset /\ status_label = last.arg)

\* the error of the download that was in flight has been handled
C9_Witness ==
    /\ last.op = "error"
    /\ last.w = download_thread
    /\ status_label \in ErrMsgs
    /\ ~is_downloading

\* C10: after download_finished with a file: if the move succeeded the file is
\* recorded, the progress is 100 and the open-file button is shown; if it raised,
\* an error status is shown and the UI is reset.
C10_FinishedWithFile ==
    /\ (last.op = "finished" /\ last.arg = "ok") =>
          /\ last_downloaded_file = last.w
          /\ progress = 100
          /\ open_file_btn
          /\ status_label = "Completed"
          /\ UiReset
    /\ (last.op = "finished" /\ last.arg \in MoveOutcomes \ {"ok"}) =>
          /\ status_label = "MoveFailed:" \o last.arg
          /\ UiReset

\* a second download's move failed after a first one succeeded
C10_Witness ==
    /\ last.op = "finished"
    /\ last.arg = "PermissionError"
    /\ last_downloaded_file # None
    /\ last_downloaded_file # last.w

\* the texts of FetchUrlTexts that are http/https URLs on an allow-listed host
AllowListed == {"https://youtu.be/a", "http://www.tiktok.com/a"}
UrlSubmitted == last.op \in {"url_online", "url_offline"}

\* C11: when is_connected() returns False for a submitted URL, an error is shown
\* and no FormatFetchThread is created.
C11_OfflineNoFetch ==
    (last.op = "url_offline" /\ last.arg # "") =>
        (format_grid = "error" /\ NextFetch = last.w)

\* an allow-listed URL was submitted while the probe failed
C11_Witness ==
    /\ last.op = "url_offline"
    /\ last.arg \in AllowListed
    /\ format_grid = "error"

\* C12: a submitted text that is not an allow-listed URL shows an error and
\* creates no FormatFetchThread; every FormatFetchThread created carries an
\* allow-listed URL.
C12_OnlyValidatedUrlsFetched ==
    /\ (UrlSubmitted /\ last.arg \notin AllowListed) =>
          (format_grid = "error" /\ NextFetch = last.w)
    /\ \A f \in Fetches : fthreads[f].pc # "unborn" => fthreads[f].url \in AllowListed

\* a URL on a host outside the list was turned down while connected, after a
\* fetch for an allow-listed one had been started
C12_Witness ==
    /\ last.op = "url_online"
    /\ last.arg = "https://evil.com/a"
    /\ format_grid = "error"
    /\ \E f \in Fetches : fthreads[f].pc = "running"

\* C13: at most one FormatFetchThread is running at any time.
C13_AtMostOneFetchThread ==
    Cardinality({f \in Fetches : fthreads[f].pc = "running"}) <= 1

\* the resolution bucket a combined record belongs to, read off its resolution
BucketOf(res) ==
    CASE res = "1920x1080" -> "1080p"
      [] res = "1280x720" -> "720p"
      [] res = "854x480" -> "480p"
      [] res = "256x144" -> "144p"
      [] OTHER -> "none"
\* a record with both an audio and a video codec
Combined(fmt) ==
    fmt.acodec \notin {"none", NoneStr, ""} /\ fmt.vcodec \notin {"none", NoneStr, ""}
\* the size of a record, 0 when unknown
KnownSize(fmt) ==
    IF fmt.filesize > 0 THEN fmt.filesize
    ELSE IF fmt.filesize_approx > 0 THEN fmt.filesize_approx ELSE 0
InBucket(fmt, b) == b # "none" /\ Combined(fmt) /\ BucketOf(fmt.resolution) = b
CatalogShown == shown.grid = "formats"

\* C14: the video list holds at most one format per resolution bucket, and the
\* one it holds is at least as large as every record of the input in that bucket.
C14_LargestPerBucket ==
    CatalogShown =>
      /\ \A i, j \in DOMAIN shown.video :
            i # j => BucketOf(shown.video[i].resolution) # BucketOf(shown.video[j].resolution)
      /\ \A i \in DOMAIN shown.video, k \in DOMAIN formats :
            InBucket(formats[k], BucketOf(shown.video[i].resolution))
            => KnownSize(formats[k]) <= shown.video[i].size_bytes

\* two 1080p records of 600000 and (later) 400000 bytes: the first survives
C14_Witness ==
    /\ CatalogShown
    /\ Len(formats) >= 2
    /\ formats[1].format_id = <<"299", "">>
    /\ formats[2].format_id = <<"137", "">>
    /\ Len(shown.video) = 1
    /\ shown.video[1].format_code = <<"299", "">>
    /\ shown.video[1].size_bytes = 600000

\* C15: no audio format shown has an extension outside mp3, m4a, webm, aac, and
\* none has the DRC marker in its format identifier.
C15_AudioFiltered ==
    CatalogShown =>
      \A i \in DOMAIN shown.audio :
         /\ shown.audio[i].ext \in {"mp3", "m4a", "webm", "aac"}
         /\ shown.audio[i].format_code[2] \notin {"-drc", "-DRC"}

\* a DRC record, an ogg record and an accepted one were in the input
C15_Witness ==
    /\ CatalogShown
    /\ \E k \in DOMAIN formats : formats[k].format_id[2] = "-DRC"
    /\ \E k \in DOMAIN formats : formats[k].ext = "ogg"
    /\ Len(shown.audio) = 1
    /\ shown.audio[1].format_code = <<"140", "">>

\* C16: the buckets of the video list are exactly 1080p, 720p, 480p, 144p in
\* that order, restricted to the buckets that have a record in the input.
C16_VideoOrder ==
    CatalogShown =>
      LET HasRecord(b) == \E k \in DOMAIN formats : InBucket(formats[k], b)
      IN [i \in DOMAIN shown.video |-> BucketOf(shown.video[i].resolution)]
         = SelectSeq(<<"1080p", "720p", "480p", "144p">>, HasRecord)

\* records given smallest bucket first come out largest bucket first
C16_Witness ==
    /\ CatalogShown
    /\ Len(formats) = 3
    /\ formats[1].resolution = "256x144"
    /\ formats[2].resolution = "1280x720"
    /\ formats[3].resolution = "1920x1080"
    /\ Len(shown.video) = 3
    /\ shown.video[1].resolution = "1920x1080"
    /\ shown.video[3].resolution = "256x144"

ErrorKinds ==
    {"NETWORK", "AUTH", "NOT_FOUND", "AGE_RESTRICTED", "GEO_BLOCKED", "FORMAT",
     "RATE_LIMIT", "PERMISSION", "DISK_SPACE", "GENERIC"}
\* the text, as written or lower-cased, contains a keyword of some group
SomeKeyword(text) ==
    \E g \in DOMAIN KeywordGroups : \E keyword \in KeywordGroups[g].keywords :
        Contains(LowerText(text), keyword)

\* C17: get_error_message returns a kind for every non-empty text, GENERIC when
\* the text holds no keyword, and NETWORK when the text contains "dns" or
\* "connection timed out".
C17_ClassifyTotal ==
    error_type # "unset" =>
      /\ error_type \in ErrorKinds
      /\ ~SomeKeyword(error_text) => error_type = "GENERIC"
      /\ (\/ Contains(error_text, <<"d", "n", "s">>)
          \/ Contains(error_text, <<"c", "o", "n", "n", "e", "c", "t", "i", "o", "n", " ", "t", "i", "m", "e", "d", " ", "o", "u", "t">>))
         => error_type = "NETWORK"

\* a text with "connection timed out" and a keyword of a later group
C17_Witness ==
    /\ error_type = "NETWORK"
    /\ error_text = <<"H", "T", "T", "P", " ", "4", "0", "3", " ", "c", "o", "n", "n", "e", "c", "t", "i", "o", "n", " ", "t", "i", "m", "e", "d", " ", "o", "u", "t">>

\* C18: when the cancel flag is set, an invocation of progress_hook emits no
\* progress line: the thread ends and the only signal it posts is
\* finished_signal(1, ""), which is not the error signal.
C18_CancelledHookAborts ==
    [][ \A s \in Sessions :
          (/\ dthreads[s].cancelled
           /\ \E h \in {"downloading", "finished", "error"}, pct \in RawPcts :
                 progress_hook(s, h, pct))
          => /\ queue' = Append(queue, Event("finished", s, 1, ""))
             /\ queue'[Len(queue')].t # "error"
             /\ dthreads'[s].pc = "done"
             /\ temp_files' = temp_files ]_vars

\* a cancelled thread has ended and its cancelled signal is posted
C18_Witness ==
    \E s \in Sessions :
        /\ dthreads[s].cancelled
        /\ dthreads[s].pc = "done"
        /\ queue = <<Event("finished", s, 1, "")>>
        /\ gui = "cancel_wait"

\* C19: once cleanup_processes waits for a thread, it returns (the window is
\* closed) whatever the FormatFetchThread and the DownloadThread do.
C19_ShutdownReturns ==
    (gui \in {"close_wait_fetch", "close_wait_download"}) ~> (gui = "closed")

\* the window is closed while both threads are still running
C19_Witness ==
    /\ gui = "closed"
    /\ FormatThreadIsRunning
    /\ DownloadThreadIsRunning
    /\ dthreads[download_thread].cancelled

\* C20: last_downloaded_file changes only when download_finished has moved a
\* file, and then to that file; starting, cancelling or failing a download, a
\* failed move included, leaves it as it is.
C20_LastFileKept ==
    [][ last_downloaded_file' # last_downloaded_file
        => (/\ last'.op = "finished"
            /\ last'.arg = "ok"
            /\ last_downloaded_file' = last'.w) ]_vars

\* the file of the first download is still recorded after the second download
\* was started and cancelled
C20_Witness ==
    /\ last.op = "cancel"
    /\ last_downloaded_file = 1
    /\ download_thread = 2
    /\ dthreads[2].cancelled

\* the signal at the head of the queue, sent by DownloadThread w, is handled
DeliveredFrom(w) ==
    /\ gui = "idle"
    /\ queue # <<>>
    /\ Head(queue).t \in DownloadEvents
    /\ Head(queue).w = w
    /\ queue' = Tail(queue)

\* C21: handling a signal of the DownloadThread of an earlier, cancelled download
\* never removes the temp folder of a later download that is in flight, never
\* clears its in-flight flag and never changes its displayed progress.
C21_StaleEventHarmless ==
    [][ \A w \in Sessions :
          (/\ DeliveredFrom(w)
           /\ dthreads[w].cancelled
           /\ download_thread # None
           /\ w < download_thread
           /\ is_downloading
           /\ IsRunning(download_thread))
          => /\ is_downloading'
             /\ progress' = progress
             /\ (download_thread \in temp_dirs => download_thread \in temp_dirs') ]_vars

\* C22: the Merging phase is entered only from the Downloading phase of a
\* download in flight, on a merge / processing line, and once it is entered the
\* phase does not return to Downloading before the next download is started.
C22_MergingFromDownloadingOnly ==
    /\ [][ (~is_merging_phase /\ is_merging_phase')
           => (/\ gui = "idle"
               /\ queue # <<>>
               /\ Head(queue).t = "merge"
               /\ queue' = Tail(queue)
               /\ is_downloading) ]_vars
    /\ [][ (is_merging_phase /\ download_thread' = download_thread)
           => (is_merging_phase' /\ ~is_downloading_phase') ]_vars

\* the step posts one signal, the last of the queue after it
PostsOne == Len(queue') = Len(queue) + 1
Posted == queue'[Len(queue')]
TerminalOfDownload(e) ==
    \/ e.t = "finished" /\ e.p \in {0, 1}
    \/ e.t = "error" /\ e.m \in ErrMsgs \cup {"NoOutputFile"}
TerminalOfFetch(e) == e.t = "formats" \/ (e.t = "fetch_error" /\ e.m \in ErrMsgs)

PriorityOrder ==
    <<"NETWORK", "AUTH", "NOT_FOUND", "AGE_RESTRICTED", "GEO_BLOCKED", "FORMAT",
      "RATE_LIMIT", "PERMISSION", "DISK_SPACE">>
\* the lower-cased text holds a keyword of the group of kind PriorityOrder[g]
HoldsKeywordOf(g) ==
    \E k \in DOMAIN KeywordGroups :
        /\ KeywordGroups[k].kind = PriorityOrder[g]
        /\ \E keyword \in KeywordGroups[k].keywords : Contains(LowerText(error_text), keyword)
\* the first n elements of a sequence
Prefix(seq, n) == [i \in 1..(IF Len(seq) < n THEN Len(seq) ELSE n) |-> seq[i]]

\* C24: the kind returned is the one of the first group, in the order NETWORK,
\* AUTH, NOT_FOUND, AGE_RESTRICTED, GEO_BLOCKED, FORMAT, RATE_LIMIT, PERMISSION,
\* DISK_SPACE, that has a keyword in the text, GENERIC when none has; the GENERIC
\* message carries the first 100 characters of the text as it was written.
C24_FirstGroupWins ==
    error_type # "unset" =>
      /\ \A g \in DOMAIN PriorityOrder :
            (HoldsKeywordOf(g) /\ \A h \in 1..(g - 1) : ~HoldsKeywordOf(h))
            => (error_type = PriorityOrder[g] /\ error_message.raw = <<>>)
      /\ (\A g \in DOMAIN PriorityOrder : ~HoldsKeywordOf(g))
         => /\ error_type = "GENERIC"
            /\ error_message.fixed = "Error: "
            /\ error_message.raw = Prefix(error_text, 100)
            /\ Len(error_message.raw) <= 100

\* a text with keywords of PERMISSION, then AUTH, is classified AUTH
C24_Witness ==
    /\ error_type = "AUTH"
    /\ error_text = <<"P", "e", "r", "m", "i", "s", "s", "i", "o", "n", " ", "H", "T", "T", "P", " ", "4", "0", "3">>

\* the entries that may be reported: not a partial file, and with a size
Reportable ==
    {e \in temp_listing.entries :
        /\ e.size >= 0
        /\ \A suffix \in {<<".", "p", "a", "r", "t">>, <<".", "y", "t", "d", "l">>,
                          <<".", "t", "m", "p">>, <<".", "t", "e", "m", "p">>} :
              ~EndsWith(e.name, suffix)}

\* C25: when ydl.download has returned, the thread reports an entry of the temp
\* folder that does not end in .part, .ytdl, .tmp or .temp and that no other
\* such entry exceeds in size; with no such entry of readable size, or with the
\* folder removed, it ends on the error signal.
C25_LargestCandidate ==
    worker_result.signal # "unset" =>
      IF temp_listing.exists /\ Reportable # {}
      THEN /\ worker_result.signal = "finished"
           /\ \E e \in Reportable :
                 /\ e.name = worker_result.arg
                 /\ \A x \in Reportable : x.size <= e.size
      ELSE worker_result.signal = "error"

\* a finished file next to a larger partial file
C25_Witness ==
    /\ worker_result.signal = "finished"
    /\ worker_result.arg = <<"a", ".", "m", "p", "4">>
    /\ [name |-> <<"a", ".", "m", "p", "4">>, size |-> 5] \in temp_listing.entries
    /\ [name |-> <<"b", ".", "m", "p", "4", ".", "p", "a", "r", "t">>, size |-> 9]
          \in temp_listing.entries

\* a combined record that belongs to none of the four resolution buckets
OutOfBuckets(fmt) == Combined(fmt) /\ BucketOf(fmt.resolution) = "none"

\* C26: a combined record whose resolution is malformed, missing or of another
\* height is left out of the video list, and the catalog of the remaining
\* records is still shown.
C26_BadResolutionDropped ==
    (shown # NotShown /\ \E k \in DOMAIN formats : OutOfBuckets(formats[k])) =>
      /\ CatalogShown
      /\ \A i \in DOMAIN shown.video : BucketOf(shown.video[i].resolution) # "none"
      /\ \A b \in {"1080p", "720p", "480p", "144p"} :
            (\E k \in DOMAIN formats : InBucket(formats[k], b))
            => \E i \in DOMAIN shown.video : BucketOf(shown.video[i].resolution) = b

\* C27: a percent line that is applied to the display while the phase is
\* Downloading shows the whole part of 0.95 times the raw percentage, at most 95.
C27_ScaledProgress ==
    [][ (/\ gui = "idle"
         /\ queue # <<>>
         /\ Head(queue).t = "percent"
         /\ queue' = Tail(queue)
         /\ is_downloading_phase
         /\ elapsed)
        => /\ progress' \in 0..95
           /\ progress' * 100 <= Head(queue).p * 95
           /\ Head(queue).p * 95 < (progress' + 1) * 100 ]_vars

\* 39 percent is shown as 37: neither rounded to nearest nor rounded up
C27_Witness ==
    /\ progress = 37
    /\ status_label = "Downloading"
    /\ is_downloading
    /\ is_downloading_phase

\* the step creates a FormatFetchThread or a DownloadThread
ThreadCreated ==
    \/ \E f \in Fetches : fthreads[f].pc = "unborn" /\ fthreads'[f].pc # "unborn"
    \/ \E s \in Sessions : dthreads[s].pc = "unborn" /\ dthreads'[s].pc # "unborn"
\* the step handles a failure signal of a thread
FailureHandled ==
    /\ gui = "idle"
    /\ queue # <<>>
    /\ Head(queue).t \in {"fetch_error", "error"}
    /\ queue' = Tail(queue)

\* C28: no thread is created by the handling of a failure; threads are created
\* only by the handlers of user events, a changed URL or a clicked format.
C28_NoAutomaticRetry ==
    /\ [][ FailureHandled => ~ThreadCreated ]_vars
    /\ [][ ThreadCreated
           => (\/ \E text \in UrlTexts, connected \in BOOLEAN : on_url_changed(text, connected)
               \/ on_format_selected
               \/ app_start_download) ]_vars

\* a failed download has been handled and no thread was created since
C28_Witness ==
    /\ last.op = "error"
    /\ last.w = download_thread
    /\ ~IsRunning(download_thread)
    /\ NextSession = download_thread + 1
    /\ ~FormatThreadIsRunning
    /\ queue = <<>>

\* C29: after cancel_download has returned and before the next user action, the
\* handling of a signal of the cancelled DownloadThread leaves the status at
\* cancelled and the progress at 0.
C29_CancelledDisplayStays ==
    [][ \A w \in Sessions :
          (/\ last.op = "cancel"
           /\ status_label = "Cancelled"
           /\ progress = 0
           /\ w = download_thread
           /\ dthreads[w].cancelled
           /\ DeliveredFrom(w))
          => UNCHANGED <<status_label, progress>> ]_vars

\* C30: the catalog on display was fetched for the URL submitted last, which is
\* the URL a download started from one of its cards is given.
C30_CatalogOfCurrentUrl ==
    format_grid = "formats" => fthreads[grid_catalog].url = current_url

\* C31: between handlers, is_downloading holds exactly when the URL input and
\* the browse button are disabled and the cancel button is visible, all three
\* together; the open-file button is visible only when is_downloading is false
\* and a last downloaded file is recorded.
C31_FlagAndControlsAgree ==
    /\ is_downloading => (~url_input /\ ~browse_btn /\ cancel_btn)
    /\ ~is_downloading => (url_input /\ browse_btn /\ ~cancel_btn)
    /\ open_file_btn => (~is_downloading /\ last_downloaded_file # None)

\* a second download is in flight after the first was moved to its place: the
\* open-file button is hidden again although a file is recorded
C31_Witness ==
    /\ is_downloading
    /\ cancel_btn
    /\ ~url_input
    /\ ~open_file_btn
    /\ last_downloaded_file = 1
    /\ download_thread = 2

====
